---- MODULE Spec2Model ----
(***************************************************************************)
(* Football agent-based simulation: the engine (FootballSimulation), the   *)
(* pitch (FootballPitch), the agents' belief update and role policies,     *)
(* and the event logger (FootballEventLogger).                             *)
(*                                                                         *)
(* Coordinates are fixed-point numbers in hundredths of a pitch unit       *)
(* (5000 is 50.0); probabilities and uniform [0,1) draws are in            *)
(* thousandths; xG values are in hundredths.  Distances are compared by    *)
(* their squares, which is exact.                                          *)
(***************************************************************************)
EXTENDS Integers, Sequences, FiniteSets, TLC

VARIABLES
    agents,          \* all_agents: id -> [position, has_ball, pressure_level]
    ball,            \* pitch.ball: [position, velocity, possession]
    score,           \* score: [home, away]
    game_phase,      \* game_phase
    match_time,      \* match_time (ms)
    match_duration,  \* match_duration (ms)
    logger,          \* event_logger: counters and the events list
    ctx,             \* game_context of the running tick
    pc,              \* position in run_simulation
    idx,             \* index into all_agents of the agent processed next
    executed,        \* what _execute_action last did: [agent, action, result, branch, tick]
    moves,           \* number of position-changing movement/defensive actions so far
    twin,            \* a second run of the same configuration (determinism)
    config           \* the formations the simulation is constructed with

vars == <<agents, ball, score, game_phase, match_time, match_duration,
          logger, ctx, pc, idx, executed, moves, twin, config>>

(***************************************************************************)
(* Bounds of the model                                                     *)
(***************************************************************************)
\* ticks of the main loop explored with the whole vocabulary (Spec)
MaxTicks == 2
\* ticks of the main loop explored with ball play only (SpecPlay)
PlayTicks == 5
\* position-changing movement / defensive actions explored in one run
MaxMoves == 1
\* number of trailing events the engine specification keeps of the log
LogWindow == 1
\* log_event calls explored in the logger specification
MaxEvents == 4
\* ticks explored in the two-run specification (SpecTwin)
TwinTicks == 1
\* ticks explored in the short ball-play specification (SpecBall)
BallTicks == 3
\* ticks explored in the one-tick full-vocabulary specification (SpecMove)
MoveTicks == 1
\* ticks explored in the carried-ball specification (SpecCarry)
CarryTicks == 6
\* ticks explored in the goalkeeper run (SpecKeeper): 60 ticks are 6 seconds
KeeperTicks == 61
\* ticks explored with the role policies (SpecPolicy)
PolicyTicks == 6

(***************************************************************************)
(* Program constants                                                       *)
(***************************************************************************)
Unit == 100            \* one pitch unit in hundredths
timestep == 100        \* ms per step
PitchLength == 100     \* FootballPitch.length
PitchWidth == 100      \* FootballPitch.width
TeamSize == 11         \* slots of the 4-4-2 formation

None == "None"        \* None where a name (team, action) is expected
NoAgent == -1          \* None where an agent id is expected (Ball.possession)

Min(a, b) == IF a < b THEN a ELSE b
Max(a, b) == IF a > b THEN a ELSE b
Abs(a) == IF a < 0 THEN -a ELSE a

Pos(x, y) == [x |-> x, y |-> y]

\* v * num / den, rounded toward zero (the fixed-point product)
Scale(v, num, den) == IF v >= 0 THEN (v * num) \div den ELSE -(((-v) * num) \div den)

\* clamp a coordinate (hundredths) to [0, 100]: max(0, min(100, v))
Clamp(v) == Max(0, Min(100 * Unit, v))

RECURSIVE SqrtIter(_, _)
SqrtIter(n, x) ==
    LET y == (x + (n \div x)) \div 2
    IN  IF y >= x THEN x ELSE SqrtIter(n, y)

\* floor of the square root
ISqrt(n) == IF n <= 0 THEN 0 ELSE SqrtIter(n, n)

\* Position.distance_to, squared (hundredths squared)
DistSq(p, q) == (p.x - q.x) * (p.x - q.x) + (p.y - q.y) * (p.y - q.y)

\* Position.distance_to, in hundredths (rounded down)
distance_to(p, q) == ISqrt(DistSq(p, q))

\* a distance test that includes the bound
NearerOrAt(p, q, k) == DistSq(p, q) <= (k * Unit) * (k * Unit)

\* d < k units, for the distance d between p and q
Nearer(p, q, k) == DistSq(p, q) < (k * Unit) * (k * Unit)

\* d > k units
Farther(p, q, k) == DistSq(p, q) > (k * Unit) * (k * Unit)

(***************************************************************************)
(* Teams and formation (FootballSimulation._create_team)                   *)
(***************************************************************************)
Ids == 0 .. (2 * TeamSize - 1)
HomeIds == 0 .. (TeamSize - 1)
AwayIds == TeamSize .. (2 * TeamSize - 1)

Slots == <<"GK", "CB_L", "CB_R", "LB", "RB", "CM_L", "CM_R", "LW", "RW", "ST1", "ST2">>

Team(i) == IF i < TeamSize THEN "home" ELSE "away"
Other(t) == IF t = "home" THEN "away" ELSE "home"
Slot(i) == Slots[(i % TeamSize) + 1]

RoleClass(slot) ==
    IF slot = "GK" THEN "Goalkeeper"
    ELSE IF slot \in {"CB_L", "CB_R", "LB", "RB"} THEN "CentreBack"
    ELSE IF slot \in {"CM_L", "CM_R", "LW", "RW"} THEN "Midfielder"
    ELSE IF slot \in {"ST1", "ST2"} THEN "Striker"
    ELSE "error"

\* the 4-4-2 table: x for the home side, x for the away side, y (pitch units)
Formation442 ==
    [GK   |-> <<5, 95, 50>>,  CB_L |-> <<20, 80, 30>>, CB_R |-> <<20, 80, 70>>,
     LB   |-> <<15, 85, 10>>, RB   |-> <<15, 85, 90>>, CM_L |-> <<50, 50, 35>>,
     CM_R |-> <<50, 50, 65>>, LW   |-> <<70, 30, 20>>, RW   |-> <<70, 30, 80>>,
     ST1  |-> <<85, 15, 40>>, ST2  |-> <<85, 15, 60>>]

home_position(i) ==
    LET row == Formation442[Slot(i)]
    IN  Pos((IF Team(i) = "home" THEN row[1] ELSE row[2]) * Unit, row[3] * Unit)

\* FootballAgent.__init__ for every slot of both teams
create_team ==
    [i \in Ids |-> [position |-> home_position(i),
                    has_ball |-> FALSE,
                    pressure_level |-> "unknown"]]

\* the keys of the formations table
ImplementedFormations == {"4-4-2"}

\* the ids of a team's agents in all_agents
TeamIds(team_name) == IF team_name = "home" THEN HomeIds ELSE AwayIds

\* a _create_team that builds the GK before it looks the formation up
create_team_partly(team_name, formation) ==
    IF formation \notin ImplementedFormations
    THEN [raised |-> TRUE,
          team |-> [i \in {a \in TeamIds(team_name) : Slot(a) = "GK"} |-> create_team[i]]]
    ELSE [raised |-> FALSE, team |-> [i \in TeamIds(team_name) |-> create_team[i]]]

\* _create_team: whether it raised, and the agents it built
create_team_for(team_name, formation) ==
    IF formation \notin ImplementedFormations
    THEN [raised |-> TRUE, team |-> [i \in {} |-> create_team[i]]]
    ELSE [raised |-> FALSE, team |-> [i \in TeamIds(team_name) |-> create_team[i]]]

\* home_team[0]
KickoffAgent == 0

(***************************************************************************)
(* Pitch (FootballPitch)                                                   *)
(***************************************************************************)
\* a ball created rolling
NewBallRolling == [position |-> Pos(50 * Unit, 50 * Unit),
                   velocity |-> <<200, 0>>,
                   possession |-> NoAgent]

\* Ball(Position(50, 50)): velocity (0, 0), possession None
NewBall == [position |-> Pos(50 * Unit, 50 * Unit),
            velocity |-> <<0, 0>>,
            possession |-> NoAgent]

\* FootballPitch.get_zone
get_zone(p) ==
    IF p.x <= 3333 THEN "defensive_third"
    ELSE IF p.x <= 6667 THEN "middle_third"
    ELSE "attacking_third"

\* FootballPitch.get_sub_zone
get_sub_zone(p) ==
    IF p.y <= 3333 THEN "left_flank"
    ELSE IF p.y <= 6667 THEN "central"
    ELSE "right_flank"

\* FootballPitch.is_in_penalty_area
is_in_penalty_area(p, team) ==
    IF team = "home"
    THEN 0 <= p.x /\ p.x <= 16 * Unit /\ 37 * Unit <= p.y /\ p.y <= 63 * Unit
    ELSE 84 * Unit <= p.x /\ p.x <= 100 * Unit /\ 37 * Unit <= p.y /\ p.y <= 63 * Unit

\* FootballPitch.is_goal_scored: the scoring team, or None
is_goal_scored(p) ==
    IF p.x <= 0 /\ 45 * Unit <= p.y /\ p.y <= 55 * Unit THEN "away"
    ELSE IF p.x >= 100 * Unit /\ 45 * Unit <= p.y /\ p.y <= 55 * Unit THEN "home"
    ELSE None

\* a physics update that never snaps the velocity to zero
physics_without_snap(b, dt) ==
    IF b.velocity # <<0, 0>>
    THEN LET new_x == Max(0, Min(PitchLength * Unit, b.position.x + Scale(b.velocity[1], dt, 1000)))
             new_y == Max(0, Min(PitchWidth * Unit, b.position.y + Scale(b.velocity[2], dt, 1000)))
         IN  [b EXCEPT !.position = Pos(new_x, new_y),
                       !.velocity = <<Scale(b.velocity[1], 95, 100), Scale(b.velocity[2], 95, 100)>>]
    ELSE b

\* FootballPitch.update_ball_physics(dt), dt in ms; velocity in hundredths per second.
\* friction 0.95; the velocity snaps to zero once both components are below 0.1
update_ball_physics(b, dt) ==
    IF b.velocity # <<0, 0>>
    THEN LET new_x == Max(0, Min(PitchLength * Unit, b.position.x + Scale(b.velocity[1], dt, 1000)))
             new_y == Max(0, Min(PitchWidth * Unit, b.position.y + Scale(b.velocity[2], dt, 1000)))
             vx == Scale(b.velocity[1], 95, 100)
             vy == Scale(b.velocity[2], 95, 100)
         IN  [b EXCEPT !.position = Pos(new_x, new_y),
                       !.velocity = IF Abs(vx) < 10 /\ Abs(vy) < 10 THEN <<0, 0>> ELSE <<vx, vy>>]
    ELSE b

(***************************************************************************)
(* Beliefs (FootballAgent.update_beliefs, _calculate_pressure)             *)
(***************************************************************************)
\* _get_visible_agents: every agent but a
visible_agents(a) == Ids \ {a}

\* _calculate_pressure: a missing opponent counts as distance 100
calculate_pressure(ag, a, visible) ==
    IF ~ag[a].has_ball THEN "none"
    ELSE LET opp == {o \in visible : Team(o) # Team(a)}
             near(k) == \E o \in opp : Nearer(ag[a].position, ag[o].position, k)
         IN  IF near(2) THEN "extreme"
             ELSE IF near(5) THEN "high"
             ELSE IF near(10) THEN "medium"
             ELSE "low"

\* beliefs left as they are
beliefs_left(ag, a) == ag

\* update_beliefs: the pressure_level belief of agent a
update_beliefs(ag, a) ==
    [ag EXCEPT ![a].pressure_level = calculate_pressure(ag, a, visible_agents(a))]

(***************************************************************************)
(* Event logger (FootballEventLogger)                                      *)
(***************************************************************************)
\* a logger whose event counter starts at 1
NewLoggerFromOne == [events |-> <<>>,
                     current_possession_id |-> 0,
                     event_counter |-> 1,
                     possession_start_time |-> 0,
                     current_possession_team |-> None,
                     current_possession_sequence |-> 0]

\* FootballEventLogger.__init__
NewLogger == [events |-> <<>>,
              current_possession_id |-> 0,
              event_counter |-> 0,
              possession_start_time |-> 0,
              current_possession_team |-> None,
              current_possession_sequence |-> 0]

\* a possession test that ignores failed ball actions
possession_change_without_failure(lg, team, action_type, result) ==
    \/ lg.current_possession_team = None
    \/ team # lg.current_possession_team

\* a possession test that ignores the acting team
possession_change_without_team(lg, team, action_type, result) ==
    \/ lg.current_possession_team = None
    \/ (action_type \in {"pass", "dribble", "shot"} /\ result = "failure")

\* _is_possession_change
is_possession_change(lg, team, action_type, result) ==
    \/ lg.current_possession_team = None
    \/ team # lg.current_possession_team
    \/ (action_type \in {"pass", "dribble", "shot"} /\ result = "failure")

\* a process type decided by the activity alone
process_type_by_activity(action_type, game_context) ==
    IF action_type \in {"press", "close_down", "intercept"} THEN "pressing"
    ELSE "possession"

\* _determine_process_type
determine_process_type(action_type, game_context) ==
    IF action_type = "kickoff" THEN "possession"
    ELSE IF game_context.game_phase = "attack" THEN "possession"
    ELSE IF action_type \in {"press", "close_down", "intercept"} THEN "pressing"
    ELSE "possession"

\* _calculate_pitch_zone
calculate_pitch_zone(x) ==
    IF x < 3333 THEN "defensive_third"
    ELSE IF x < 6667 THEN "middle_third"
    ELSE "attacking_third"

\* _calculate_sub_zone
calculate_sub_zone(y) ==
    IF y < 3333 THEN "left_flank"
    ELSE IF y < 6667 THEN "central"
    ELSE "right_flank"

\* _determine_game_state
determine_game_state(sc, team) ==
    IF sc[team] > sc[Other(team)] THEN "winning"
    ELSE IF sc[team] < sc[Other(team)] THEN "losing"
    ELSE "drawing"

\* _calculate_xg_contribution, in hundredths (1.0 is 100)
calculate_xg_contribution(action_type, ball_position, result) ==
    IF action_type = "shot"
    THEN IF result = "goal" THEN 100
         ELSE LET g0 == Pos(0, 50 * Unit)
                  g1 == Pos(100 * Unit, 50 * Unit)
                  near(k) == Nearer(ball_position, g0, k) \/ Nearer(ball_position, g1, k)
              IN  IF near(10) THEN 40
                  ELSE IF near(20) THEN 20
                  ELSE 5
    ELSE IF action_type = "pass" /\ result = "success" /\ ball_position.x > 67 * Unit THEN 1
    ELSE 0

\* a log_event whose sequence counter is never reset
log_event_counting_on(lg, ag, a, action_type, result, ball_position, game_context) ==
    LET change == is_possession_change(lg, Team(a), action_type, result)
        lg1 == IF change
               THEN [lg EXCEPT !.current_possession_id = @ + 1,
                               !.possession_start_time = game_context.match_time,
                               !.current_possession_team = Team(a),
                               !.current_possession_sequence = @ + 1]
               ELSE [lg EXCEPT !.current_possession_sequence = @ + 1]
        event == [case_id |-> lg1.current_possession_id,
                  process_type |-> determine_process_type(action_type, game_context),
                  event_id |-> lg1.event_counter,
                  timestamp |-> game_context.match_time,
                  sequence_number |-> lg1.current_possession_sequence,
                  activity |-> action_type,
                  activity_result |-> result,
                  player_id |-> a,
                  player_role |-> Slot(a),
                  team |-> Team(a),
                  start |-> ag[a].position,
                  end |-> ball_position,
                  pitch_zone |-> calculate_pitch_zone(ball_position.x),
                  sub_zone |-> calculate_sub_zone(ball_position.y),
                  pressure_level |-> ag[a].pressure_level,
                  game_state |-> determine_game_state(game_context.score, Team(a)),
                  time_remaining |-> game_context.time_remaining,
                  xg_added |-> calculate_xg_contribution(action_type, ball_position, result)]
    IN  [lg1 EXCEPT !.events = Append(@, event),
                    !.event_counter = @ + 1]

\* log_event: the logger after logging one event of agent a
log_event(lg, ag, a, action_type, result, ball_position, game_context) ==
    LET change == is_possession_change(lg, Team(a), action_type, result)
        lg1 == IF change
               THEN [lg EXCEPT !.current_possession_id = @ + 1,
                               !.possession_start_time = game_context.match_time,
                               !.current_possession_team = Team(a),
                               !.current_possession_sequence = 1]
               ELSE [lg EXCEPT !.current_possession_sequence = @ + 1]
        event == [case_id |-> lg1.current_possession_id,
                  process_type |-> determine_process_type(action_type, game_context),
                  event_id |-> lg1.event_counter,
                  timestamp |-> game_context.match_time,
                  sequence_number |-> lg1.current_possession_sequence,
                  activity |-> action_type,
                  activity_result |-> result,
                  player_id |-> a,
                  player_role |-> Slot(a),
                  team |-> Team(a),
                  start |-> ag[a].position,
                  end |-> ball_position,
                  pitch_zone |-> calculate_pitch_zone(ball_position.x),
                  sub_zone |-> calculate_sub_zone(ball_position.y),
                  pressure_level |-> ag[a].pressure_level,
                  game_state |-> determine_game_state(game_context.score, Team(a)),
                  time_remaining |-> game_context.time_remaining,
                  xg_added |-> calculate_xg_contribution(action_type, ball_position, result)]
    IN  [lg1 EXCEPT !.events = Append(@, event),
                    !.event_counter = @ + 1]

(***************************************************************************)
(* Engine (FootballSimulation).  A world is the record                     *)
(*   [agents, ball, score, game_phase, match_time, match_duration, logger] *)
(* and every operation maps a world to the world it leaves.                *)
(***************************************************************************)
\* the random draws one action execution may consume:
\*   u     np.random.random(), thousandths in [0, 1000)
\*   zx,zy np.random.normal(0, sigma) / sigma for the x and the y noise
\*   step  np.random.uniform(2, 5), hundredths in [200, 500)
\*   jit   np.random.uniform(-2, 2), hundredths in [-200, 200)
NoDraw == [u |-> 0, zx |-> 0, zy |-> 0, step |-> 200, jit |-> 0]

\* FootballSimulation.__init__ followed by run_simulation's first line
NewWorld(duration_minutes) ==
    [agents |-> create_team,
     ball |-> NewBall,
     score |-> [home |-> 0, away |-> 0],
     game_phase |-> "kickoff",
     match_time |-> 0,
     match_duration |-> duration_minutes * 60 * 1000,
     logger |-> NewLogger]

\* a context whose match_time counts down
get_game_context_countdown(w) ==
    [match_time |-> w.match_duration - w.match_time,
     time_remaining |-> (w.match_duration - w.match_time) \div 1000,
     score |-> w.score,
     ball_position |-> w.ball.position,
     game_phase |-> w.game_phase]

\* _get_game_context
get_game_context(w) ==
    [match_time |-> w.match_time,
     time_remaining |-> (w.match_duration - w.match_time) \div 1000,
     score |-> w.score,
     ball_position |-> w.ball.position,
     game_phase |-> w.game_phase]

\* a kickoff that leaves the ball where it is
kickoff_ball_left(w) ==
    LET b == [w.ball EXCEPT !.possession = KickoffAgent]
        ag == [w.agents EXCEPT ![KickoffAgent].has_ball = TRUE]
        w1 == [w EXCEPT !.ball = b, !.agents = ag, !.game_phase = "attack"]
    IN  [w1 EXCEPT !.logger = log_event(w1.logger, w1.agents, KickoffAgent, "kickoff",
                                        "success", w1.ball.position, get_game_context(w1))]

\* _kickoff
kickoff(w) ==
    LET b == [NewBall EXCEPT !.possession = KickoffAgent]
        ag == [w.agents EXCEPT ![KickoffAgent].has_ball = TRUE]
        w1 == [w EXCEPT !.ball = b, !.agents = ag, !.game_phase = "attack"]
    IN  [w1 EXCEPT !.logger = log_event(w1.logger, w1.agents, KickoffAgent, "kickoff",
                                        "success", w1.ball.position, get_game_context(w1))]

\* the teammate nearest to a (the first of the nearest in all_agents order)
nearest_teammate(ag, a) ==
    LET teammates == {t \in Ids : Team(t) = Team(a) /\ t # a}
        d(t) == DistSq(ag[a].position, ag[t].position)
    IN  CHOOSE t \in teammates :
            \A o \in teammates : d(t) < d(o) \/ (d(t) = d(o) /\ t <= o)

\* success probability of a pass, thousandths
pass_success_prob(ag, a, target) ==
    LET pass_distance == distance_to(ag[a].position, ag[target].position)
        distance_penalty == Min(300, pass_distance \div 10)
        pressure == ag[a].pressure_level
        pressure_penalty == IF pressure = "medium" THEN 100
                            ELSE IF pressure = "high" THEN 200
                            ELSE IF pressure = "extreme" THEN 300
                            ELSE 0
    IN  800 - distance_penalty - pressure_penalty

\* _execute_pass
execute_pass(w, a, d) ==
    LET teammates == {t \in Ids : Team(t) = Team(a) /\ t # a}
    IN  IF teammates = {} THEN [w |-> w, result |-> "failure"]
        ELSE
        LET target == nearest_teammate(w.agents, a)
            pa == w.agents[a].position
            pt == w.agents[target].position
        IN  IF d.u < pass_success_prob(w.agents, a, target)
            THEN [w |-> [w EXCEPT !.agents[a].has_ball = FALSE,
                                  !.agents[target].has_ball = TRUE,
                                  !.ball.possession = target,
                                  !.ball.position = pt],
                  result |-> "success"]
            ELSE LET new_x == (pa.x + pt.x) \div 2 + d.zx * 5 * Unit
                     new_y == (pa.y + pt.y) \div 2 + d.zy * 5 * Unit
                 IN  [w |-> [w EXCEPT !.agents[a].has_ball = FALSE,
                                      !.ball.possession = NoAgent,
                                      !.ball.position = Pos(Max(0, Min(100 * Unit, new_x)),
                                                            Max(0, Min(100 * Unit, new_y)))],
                      result |-> "failure"]

\* success probability of a shot from p at goal_pos, thousandths
shot_success_prob(p, goal_pos) ==
    IF Farther(p, goal_pos, 30) THEN 50
    ELSE IF Farther(p, goal_pos, 20) THEN 150
    ELSE IF Farther(p, goal_pos, 10) THEN 250
    ELSE 400

\* _execute_shot
execute_shot(w, a, d) ==
    LET goal_pos == IF Team(a) = "home" THEN Pos(100 * Unit, 50 * Unit) ELSE Pos(0, 50 * Unit)
    IN  IF d.u < shot_success_prob(w.agents[a].position, goal_pos)
        THEN [w |-> [w EXCEPT !.score[Team(a)] = @ + 1,
                              !.agents[a].has_ball = FALSE,
                              !.ball.possession = NoAgent],
              result |-> "goal"]
        ELSE [w |-> [w EXCEPT !.agents[a].has_ball = FALSE,
                              !.ball.possession = NoAgent,
                              !.ball.position = Pos(goal_pos.x + d.zx * 10 * Unit,
                                                    goal_pos.y + d.zy * 10 * Unit)],
              result |-> "saved"]

\* a dribble that leaves the ball behind
execute_dribble_ball_left(w, a, d) ==
    LET p == w.agents[a].position
        new_x == IF Team(a) = "home" THEN Min(100 * Unit, p.x + d.step)
                 ELSE Max(0, p.x - d.step)
        new_y == Max(0, Min(100 * Unit, p.y + d.jit))
    IN  [w |-> [w EXCEPT !.agents[a].position = Pos(new_x, new_y)],
         result |-> "success"]

\* _execute_dribble
execute_dribble(w, a, d) ==
    LET p == w.agents[a].position
        new_x == IF Team(a) = "home" THEN Min(100 * Unit, p.x + d.step)
                 ELSE Max(0, p.x - d.step)
        new_y == Max(0, Min(100 * Unit, p.y + d.jit))
    IN  [w |-> [w EXCEPT !.agents[a].position = Pos(new_x, new_y),
                         !.ball.position = Pos(new_x, new_y)],
         result |-> "success"]

\* a movement that takes the ball along
movement_with_ball(w, a, action) ==
    LET p == w.agents[a].position
        h == home_position(a)
        new_x == Max(0, Min(100 * Unit, p.x + Scale(h.x - p.x, 1, 10)))
        new_y == Max(0, Min(100 * Unit, p.y + Scale(h.y - p.y, 1, 10)))
    IN  [w |-> [w EXCEPT !.agents[a].position = Pos(new_x, new_y),
                         !.ball.position = Pos(new_x, new_y)],
         result |-> "success"]

\* a movement that does not clamp the new position
movement_unclamped(w, a, action) ==
    LET p == w.agents[a].position
        b == w.ball.position
        h == home_position(a)
        target_x == IF Team(a) = "home" THEN 25 * Unit ELSE 75 * Unit
        direction_x == IF action = "support_run" THEN Scale(b.x - p.x, 1, 10)
                       ELSE IF action = "track_back" THEN Scale(target_x - p.x, 1, 10)
                       ELSE Scale(h.x - p.x, 1, 10)
        direction_y == IF action = "support_run" THEN Scale(b.y - p.y, 1, 10)
                       ELSE IF action = "track_back" THEN Scale(50 * Unit - p.y, 5, 100)
                       ELSE Scale(h.y - p.y, 1, 10)
    IN  [w |-> [w EXCEPT !.agents[a].position = Pos(p.x + direction_x, p.y + direction_y)],
         result |-> "success"]

\* _execute_movement
execute_movement(w, a, action) ==
    LET p == w.agents[a].position
        b == w.ball.position
        h == home_position(a)
        target_x == IF Team(a) = "home" THEN 25 * Unit ELSE 75 * Unit
        direction_x == IF action = "support_run" THEN Scale(b.x - p.x, 1, 10)
                       ELSE IF action = "track_back" THEN Scale(target_x - p.x, 1, 10)
                       ELSE Scale(h.x - p.x, 1, 10)
        direction_y == IF action = "support_run" THEN Scale(b.y - p.y, 1, 10)
                       ELSE IF action = "track_back" THEN Scale(50 * Unit - p.y, 5, 100)
                       ELSE Scale(h.y - p.y, 1, 10)
        new_x == Max(0, Min(100 * Unit, p.x + direction_x))
        new_y == Max(0, Min(100 * Unit, p.y + direction_y))
    IN  [w |-> [w EXCEPT !.agents[a].position = Pos(new_x, new_y)],
         result |-> "success"]

\* the agent whose flag an intercept clears: the first holder in all_agents order
first_holder(ag) ==
    IF \E o \in Ids : ag[o].has_ball
    THEN CHOOSE o \in Ids : ag[o].has_ball /\ \A q \in Ids : ag[q].has_ball => o <= q
    ELSE NoAgent

\* a defensive action whose steal does not test the distance to the ball
defensive_action_at_any_range(w, a, action, d) ==
    LET p == w.agents[a].position
        b == w.ball.position
    IN  IF action = "intercept" /\ d.u < 300
        THEN LET h == first_holder(w.agents)
                 ag1 == IF h = NoAgent THEN w.agents
                        ELSE [w.agents EXCEPT ![h].has_ball = FALSE]
             IN  [w |-> [w EXCEPT !.agents = [ag1 EXCEPT ![a].has_ball = TRUE],
                                  !.ball.possession = a,
                                  !.ball.position = p],
                  result |-> "success"]
        ELSE LET new_x == Max(0, Min(100 * Unit, p.x + Scale(b.x - p.x, 2, 10)))
                 new_y == Max(0, Min(100 * Unit, p.y + Scale(b.y - p.y, 2, 10)))
             IN  [w |-> [w EXCEPT !.agents[a].position = Pos(new_x, new_y)],
                  result |-> "success"]

\* _execute_defensive_action
execute_defensive_action(w, a, action, d) ==
    LET p == w.agents[a].position
        b == w.ball.position
    IN  IF action = "intercept" /\ Nearer(p, b, 3) /\ d.u < 300
        THEN LET h == first_holder(w.agents)
                 ag1 == IF h = NoAgent THEN w.agents
                        ELSE [w.agents EXCEPT ![h].has_ball = FALSE]
             IN  [w |-> [w EXCEPT !.agents = [ag1 EXCEPT ![a].has_ball = TRUE],
                                  !.ball.possession = a,
                                  !.ball.position = p],
                  result |-> "success"]
        ELSE LET new_x == Max(0, Min(100 * Unit, p.x + Scale(b.x - p.x, 2, 10)))
                 new_y == Max(0, Min(100 * Unit, p.y + Scale(b.y - p.y, 2, 10)))
             IN  [w |-> [w EXCEPT !.agents[a].position = Pos(new_x, new_y)],
                  result |-> "success"]

\* a dispatch that does not test has_ball
execution_branch_unheld(w, a, action) ==
    IF action = "pass" THEN "pass"
    ELSE IF action = "shoot" THEN "shot"
    ELSE IF action = "dribble" THEN "dribble"
    ELSE IF action \in {"move_to_position", "support_run", "track_back"} THEN "movement"
    ELSE IF action \in {"close_down", "press", "intercept"} THEN "defensive"
    ELSE "none"

\* the branch of _execute_action that runs for (agent a, action)
execution_branch(w, a, action) ==
    IF action = "pass" /\ w.agents[a].has_ball THEN "pass"
    ELSE IF action = "shoot" /\ w.agents[a].has_ball THEN "shot"
    ELSE IF action = "dribble" /\ w.agents[a].has_ball THEN "dribble"
    ELSE IF action \in {"move_to_position", "support_run", "track_back"} THEN "movement"
    ELSE IF action \in {"close_down", "press", "intercept"} THEN "defensive"
    ELSE "none"

\* _execute_action up to the logging: the world and the result
execute_branch(w, a, action, d) ==
    LET br == execution_branch(w, a, action)
    IN  IF br = "pass" THEN execute_pass(w, a, d)
        ELSE IF br = "shot" THEN execute_shot(w, a, d)
        ELSE IF br = "dribble" THEN execute_dribble(w, a, d)
        ELSE IF br = "movement" THEN execute_movement(w, a, action)
        ELSE IF br = "defensive" THEN execute_defensive_action(w, a, action, d)
        ELSE [w |-> w, result |-> "failure"]

\* every action logged
is_logged_always(action) == TRUE

\* whether _execute_action logs the action
is_logged(action) == action # "maintain_position"

\* an execution that logs with a context rebuilt after the action
execute_action_fresh_context(w, a, action, game_context, d) ==
    LET r == execute_branch(w, a, action, d)
    IN  IF is_logged(action)
        THEN [r.w EXCEPT !.logger = log_event(r.w.logger, r.w.agents, a, action, r.result,
                                              r.w.ball.position, get_game_context(r.w))]
        ELSE r.w

\* _execute_action: the branch, then the log entry
execute_action(w, a, action, game_context, d) ==
    LET r == execute_branch(w, a, action, d)
    IN  IF is_logged(action)
        THEN [r.w EXCEPT !.logger = log_event(r.w.logger, r.w.agents, a, action, r.result,
                                              r.w.ball.position, game_context)]
        ELSE r.w

\* a phase recompute that ignores who holds the ball
phase_without_holder(w) ==
    LET ball_x == w.ball.position.x
    IN  IF ball_x < 33 * Unit THEN "attack"
        ELSE IF ball_x > 67 * Unit THEN "defense"
        ELSE "transition"

\* _update_game_phase
update_game_phase(w) ==
    LET ball_x == w.ball.position.x
        home_has == w.ball.possession \in HomeIds
    IN  IF ball_x < 33 * Unit THEN (IF home_has THEN "defense" ELSE "attack")
        ELSE IF ball_x > 67 * Unit THEN (IF home_has THEN "attack" ELSE "defense")
        ELSE "transition"

\* _handle_goal
handle_goal(w, scoring_team) ==
    kickoff([w EXCEPT !.score[scoring_team] = @ + 1])

\* a goal check that leaves the clock alone
check_without_clock(w) ==
    LET goal_scorer == is_goal_scored(w.ball.position)
    IN  IF goal_scorer # None THEN handle_goal(w, goal_scorer) ELSE w

\* run_simulation, lines 98-103: the clock, then the goal check
advance_and_check(w) ==
    LET w1 == [w EXCEPT !.match_time = @ + timestep]
        goal_scorer == is_goal_scored(w1.ball.position)
    IN  IF goal_scorer # None THEN handle_goal(w1, goal_scorer) ELSE w1

(***************************************************************************)
(* Role policies (Goalkeeper, CentreBack, Midfielder, Striker)             *)
(***************************************************************************)
teammates_of(a) == {t \in Ids : t # a /\ Team(t) = Team(a)}

\* Goalkeeper._decide_distribution
gk_decide_distribution(ag, a) ==
    IF teammates_of(a) # {}
    THEN IF Nearer(ag[a].position, ag[nearest_teammate(ag, a)].position, 20)
         THEN "short_pass" ELSE "long_kick"
    ELSE "long_kick"

\* a positioning that runs towards the ball
gk_positioning_towards_ball(ag, a, game_context) ==
    IF Farther(ag[a].position, game_context.ball_position, 2)
    THEN "support_run" ELSE "maintain_position"

\* Goalkeeper._decide_positioning
gk_decide_positioning(ag, a, game_context) ==
    LET optimal_x == Max(2 * Unit, Min(14 * Unit, Scale(game_context.ball_position.x, 15, 100)))
        optimal_y == 50 * Unit + Scale(game_context.ball_position.y - 50 * Unit, 3, 10)
    IN  IF Farther(ag[a].position, Pos(optimal_x, optimal_y), 2)
        THEN "move_to_position" ELSE "maintain_position"

\* Goalkeeper.decide_action
gk_decide_action(ag, a, game_context) ==
    IF ag[a].has_ball THEN gk_decide_distribution(ag, a)
    ELSE IF Nearer(ag[a].position, game_context.ball_position, 5)
            /\ game_context.game_phase = "defense" THEN "save_attempt"
    ELSE gk_decide_positioning(ag, a, game_context)

\* CentreBack.decide_action
cb_decide_action(ag, a, game_context) ==
    IF ag[a].has_ball
    THEN LET pressure == ag[a].pressure_level
         IN  IF pressure \in {"high", "extreme"} THEN "clear_ball"
             ELSE IF pressure = "medium" THEN "short_pass"
             ELSE IF \E t \in teammates_of(a) : ag[t].position.x > ag[a].position.x + 10 * Unit
                  THEN "forward_pass" ELSE "safe_pass"
    ELSE IF Nearer(ag[a].position, game_context.ball_position, 15)
            /\ game_context.game_phase = "defense" THEN "close_down"
    ELSE IF game_context.game_phase = "attack" THEN "maintain_position"
    ELSE "track_runner"

\* Midfielder.decide_action
mf_decide_action(ag, a, game_context) ==
    IF ag[a].has_ball
    THEN LET attacking_teammates == {t \in teammates_of(a) : ag[t].position.x > ag[a].position.x}
         IN  IF ag[a].position.x > 70 * Unit
             THEN (IF attacking_teammates # {} THEN "through_pass" ELSE "shoot")
             ELSE IF ag[a].position.x > 40 * Unit
             THEN (IF Cardinality(attacking_teammates) >= 2 THEN "forward_pass"
                   ELSE "retain_possession")
             ELSE "safe_pass"
    ELSE IF game_context.game_phase = "attack" THEN "support_run"
    ELSE IF game_context.game_phase = "defense"
    THEN (IF Nearer(ag[a].position, game_context.ball_position, 20) THEN "press"
          ELSE "track_back")
    ELSE "find_space"

\* Striker.decide_action
st_decide_action(ag, a, game_context) ==
    IF ag[a].has_ball
    THEN IF Nearer(ag[a].position, Pos(100 * Unit, 50 * Unit), 20)
            /\ ag[a].position.x > 80 * Unit THEN "shoot"
         ELSE IF ag[a].pressure_level = "low" THEN "dribble_forward"
         ELSE IF \E t \in teammates_of(a) : ag[t].position.x > 60 * Unit THEN "lay_off"
         ELSE "hold_up"
    ELSE IF game_context.game_phase = "attack"
    THEN (IF ag[a].position.x < 70 * Unit THEN "run_behind" ELSE "find_space")
    ELSE "press_defender"

\* agent.decide_action, dispatched on the agent's class
decide_action(ag, a, game_context) ==
    LET cls == RoleClass(Slot(a))
    IN  IF cls = "Goalkeeper" THEN gk_decide_action(ag, a, game_context)
        ELSE IF cls = "CentreBack" THEN cb_decide_action(ag, a, game_context)
        ELSE IF cls = "Midfielder" THEN mf_decide_action(ag, a, game_context)
        ELSE st_decide_action(ag, a, game_context)

(***************************************************************************)
(* The state machine of run_simulation                                     *)
(***************************************************************************)
\* the world held by the variables
World ==
    [agents |-> agents, ball |-> ball, score |-> score, game_phase |-> game_phase,
     match_time |-> match_time, match_duration |-> match_duration, logger |-> logger]

\* the log as the model keeps it: its last n events
Keep(lg, n) ==
    LET len == Len(lg.events)
    IN  IF len <= n THEN lg
        ELSE [lg EXCEPT !.events = SubSeq(@, len - n + 1, len)]

\* the world as the model keeps it
Kept(w) == [w EXCEPT !.logger = Keep(w.logger, LogWindow)]

\* the variables take the world w
Becomes(w) ==
    /\ agents' = w.agents
    /\ ball' = w.ball
    /\ score' = w.score
    /\ game_phase' = w.game_phase
    /\ match_time' = w.match_time
    /\ match_duration' = w.match_duration
    /\ logger' = Keep(w.logger, LogWindow)

NoExec == [agent |-> NoAgent, action |-> None, result |-> None, branch |-> None,
           held |-> FALSE]

\* the engine's action vocabulary: the names _execute_action tests, and one it does not
Vocabulary ==
    {"pass", "shoot", "dribble", "move_to_position", "support_run", "track_back",
     "close_down", "press", "intercept", "maintain_position", "find_space"}

\* the agents whose actions are enumerated: the kickoff agent (home GK) and the
\* away ST1; every other agent maintains its position
ActiveIds == {0, 20}

\* representative draws
U01 == {0, 300, 999}
ZPairs == {<<0, 0>>, <<1, 0>>, <<-4, 1>>}
Steps == {200, 499}
Jits == {-200, 0, 199}

\* the draws the branch br consumes
DrawsFor(br, action) ==
    IF br \in {"pass", "shot"}
    THEN {[NoDraw EXCEPT !.u = u, !.zx = z[1], !.zy = z[2]] : u \in U01, z \in ZPairs}
    ELSE IF br = "dribble"
    THEN {[NoDraw EXCEPT !.step = st, !.jit = j] : st \in Steps, j \in Jits}
    ELSE IF br = "defensive" /\ action = "intercept"
    THEN {[NoDraw EXCEPT !.u = u] : u \in U01}
    ELSE {NoDraw}

\* durations (minutes) run_simulation is called with
Durations == {0, 1}

\* the formation arguments' defaults in __init__
DefaultConfig == [home_formation |-> "4-4-2", away_formation |-> "4-4-2"]

\* a constructed simulation, the driver at p
InitAt(p) ==
    LET w == NewWorld(90)
    IN  /\ agents = w.agents
        /\ ball = w.ball
        /\ score = w.score
        /\ game_phase = w.game_phase
        /\ match_time = w.match_time
        /\ match_duration = w.match_duration
        /\ logger = w.logger
        /\ ctx = get_game_context(w)
        /\ pc = p
        /\ idx = 0
        /\ executed = NoExec
        /\ moves = 0
        /\ config = DefaultConfig

Init == InitAt("new") /\ twin = None

\* run_simulation, lines 89-93, on world w: set the duration, kick off
run_start(w, dur) == kickoff([w EXCEPT !.match_duration = dur * 60 * 1000])

StartWith(dur) ==
    /\ pc = "new"
    /\ Becomes(run_start(World, dur))
    /\ pc' = "loop"
    /\ UNCHANGED <<ctx, idx, executed, moves>>

\* the loop test succeeds: _simulation_step builds the context
BeginTickUpTo(ticks) ==
    /\ pc = "loop"
    /\ match_time < match_duration
    /\ match_time < ticks * timestep
    /\ ctx' = get_game_context(World)
    /\ idx' = 0
    /\ pc' = "agent"
    /\ UNCHANGED <<agents, ball, score, game_phase, match_time, match_duration,
                   logger, executed, moves>>

\* the loop test fails: run_simulation returns
FinishRun ==
    /\ pc = "loop"
    /\ match_time >= match_duration
    /\ pc' = "done"
    /\ UNCHANGED <<agents, ball, score, game_phase, match_time, match_duration,
                   logger, ctx, idx, executed, moves>>

IsMove(br) == br \in {"movement", "defensive"}

\* one iteration of the agent loop of _simulation_step on world w for agent a:
\* update_beliefs, then _execute_action of the decided action
agent_iteration(w, a, action, game_context, d) ==
    execute_action([w EXCEPT !.agents = update_beliefs(w.agents, a)], a, action,
                   game_context, d)

\* one iteration of the agent loop for agent idx
AgentStepWith(action, d) ==
    LET a == idx
        w0 == [World EXCEPT !.agents = update_beliefs(agents, a)]
        br == execution_branch(w0, a, action)
        r == execute_branch(w0, a, action, d)
    IN  /\ pc = "agent"
        /\ Becomes(agent_iteration(World, a, action, ctx, d))
        /\ executed' = [agent |-> a, action |-> action, result |-> r.result,
                        branch |-> br, held |-> agents[a].has_ball]
        /\ moves' = IF IsMove(br) THEN moves + 1 ELSE moves
        /\ idx' = idx + 1
        /\ pc' = IF idx + 1 = 2 * TeamSize THEN "physics" ELSE "agent"
        /\ UNCHANGED ctx

\* the actions enumerated for agent a
Choices(a) ==
    IF a \in ActiveIds
    THEN {act \in Vocabulary :
            IsMove(execution_branch(World, a, act)) => moves < MaxMoves}
    ELSE {"maintain_position"}

\* the agent loop for one action of choices and every draw it may consume
AgentStepIn(choices) ==
    /\ pc = "agent"
    /\ \E action \in choices :
         \E d \in DrawsFor(execution_branch(World, idx, action), action) :
            AgentStepWith(action, d)

\* _simulation_step, line 144: ball physics
PhysicsStep ==
    /\ pc = "physics"
    /\ ball' = update_ball_physics(ball, timestep)
    /\ pc' = "phase"
    /\ UNCHANGED <<agents, score, game_phase, match_time, match_duration,
                   logger, ctx, idx, executed, moves>>

\* _simulation_step, line 147: the phase recompute
UpdatePhaseStep ==
    /\ pc = "phase"
    /\ game_phase' = update_game_phase(World)
    /\ pc' = "goalcheck"
    /\ UNCHANGED <<agents, ball, score, match_time, match_duration,
                   logger, ctx, idx, executed, moves>>

\* run_simulation, lines 98-103: advance the clock, check for a goal
GoalCheckStep ==
    /\ pc = "goalcheck"
    /\ Becomes(advance_and_check(World))
    /\ pc' = "loop"
    /\ UNCHANGED <<ctx, idx, executed, moves>>

(***************************************************************************)
(* Spec: the engine with every action of its vocabulary                    *)
(***************************************************************************)
Start == (\E dur \in Durations : StartWith(dur)) /\ UNCHANGED <<twin, config>>

BeginTick == BeginTickUpTo(MaxTicks) /\ UNCHANGED <<twin, config>>

Finish == FinishRun /\ UNCHANGED <<twin, config>>

AgentStep == AgentStepIn(Choices(idx)) /\ UNCHANGED <<twin, config>>

Physics == PhysicsStep /\ UNCHANGED <<twin, config>>

UpdatePhase == UpdatePhaseStep /\ UNCHANGED <<twin, config>>

GoalCheck == GoalCheckStep /\ UNCHANGED <<twin, config>>

Next ==
    \/ Start
    \/ BeginTick
    \/ Finish
    \/ AgentStep
    \/ Physics
    \/ UpdatePhase
    \/ GoalCheck

Spec == Init /\ [][Next]_vars

(***************************************************************************)
(* SpecPlay: ball play only.  The holder passes, shoots or dribbles, an    *)
(* agent within 3 units of the ball may intercept, everyone else maintains *)
(* position.                                                               *)
(***************************************************************************)
PlayChoices(a) ==
    IF a \in ActiveIds
    THEN IF agents[a].has_ball THEN {"pass", "shoot", "dribble"}
         ELSE IF Nearer(agents[a].position, ball.position, 3)
              THEN {"intercept", "maintain_position"}
              ELSE {"maintain_position"}
    ELSE {"maintain_position"}

PlayStep == AgentStepIn(PlayChoices(idx)) /\ UNCHANGED <<twin, config>>

PlayBeginTick == BeginTickUpTo(PlayTicks) /\ UNCHANGED <<twin, config>>

NextPlay ==
    \/ Start
    \/ PlayBeginTick
    \/ Finish
    \/ PlayStep
    \/ Physics
    \/ UpdatePhase
    \/ GoalCheck

SpecPlay == Init /\ [][NextPlay]_vars

(***************************************************************************)
(* SpecBall: ball play over the first ticks of a match in which an active  *)
(* agent without the ball may intercept from any distance                  *)
(***************************************************************************)
BallChoices(a) ==
    IF a \in ActiveIds
    THEN IF agents[a].has_ball THEN {"pass", "shoot", "dribble"}
         ELSE {"intercept", "maintain_position"}
    ELSE {"maintain_position"}

BallStep == AgentStepIn(BallChoices(idx)) /\ UNCHANGED <<twin, config>>

BallBeginTick == BeginTickUpTo(BallTicks) /\ UNCHANGED <<twin, config>>

NextBall ==
    \/ Start
    \/ BallBeginTick
    \/ Finish
    \/ BallStep
    \/ Physics
    \/ UpdatePhase
    \/ GoalCheck

SpecBall == Init /\ [][NextBall]_vars

(***************************************************************************)
(* SpecMove: the full vocabulary of Spec over the first tick of a match    *)
(***************************************************************************)
MoveBeginTick == BeginTickUpTo(MoveTicks) /\ UNCHANGED <<twin, config>>

NextMove ==
    \/ Start
    \/ MoveBeginTick
    \/ Finish
    \/ AgentStep
    \/ Physics
    \/ UpdatePhase
    \/ GoalCheck

SpecMove == Init /\ [][NextMove]_vars

(***************************************************************************)
(* SpecCarry: the ball play in which the home goalkeeper distributes the   *)
(* ball (pass or shot) and the away striker takes a loose ball nearby and  *)
(* carries it on                                                           *)
(***************************************************************************)
CarryChoices(a) ==
    IF a \in ActiveIds
    THEN IF agents[a].has_ball
         THEN (IF Team(a) = "home" THEN {"pass", "shoot"} ELSE {"dribble"})
         ELSE IF Nearer(agents[a].position, ball.position, 3)
              THEN {"intercept"}
              ELSE {"maintain_position"}
    ELSE {"maintain_position"}

CarryStep == AgentStepIn(CarryChoices(idx)) /\ UNCHANGED <<twin, config>>

CarryBeginTick == BeginTickUpTo(CarryTicks) /\ UNCHANGED <<twin, config>>

NextCarry ==
    \/ Start
    \/ CarryBeginTick
    \/ Finish
    \/ CarryStep
    \/ Physics
    \/ UpdatePhase
    \/ GoalCheck

SpecCarry == Init /\ [][NextCarry]_vars

(***************************************************************************)
(* SpecPolicy: run_simulation with the role policies deciding every action *)
(***************************************************************************)
PolicyStep ==
    /\ pc = "agent"
    /\ LET action == decide_action(update_beliefs(agents, idx), idx, ctx)
       IN  \E d \in DrawsFor(execution_branch(World, idx, action), action) :
              AgentStepWith(action, d)
    /\ UNCHANGED <<twin, config>>

PolicyBeginTick == BeginTickUpTo(PolicyTicks) /\ UNCHANGED <<twin, config>>

NextPolicy ==
    \/ Start
    \/ PolicyBeginTick
    \/ Finish
    \/ PolicyStep
    \/ Physics
    \/ UpdatePhase
    \/ GoalCheck

SpecPolicy == Init /\ [][NextPolicy]_vars

(***************************************************************************)
(* SpecKeeper: run_simulation under the role policies for a little more    *)
(* than the six seconds the goalkeeper declares for its distribution.      *)
(* Here twin is a history variable: the match_time at which the home       *)
(* goalkeeper gained the ball it holds, None while it does not hold it.    *)
(***************************************************************************)
\* the history variable after a step
HeldSince ==
    twin' = IF agents'[KickoffAgent].has_ball
            THEN (IF agents[KickoffAgent].has_ball THEN twin ELSE match_time')
            ELSE None

KeeperStart == (\E dur \in Durations : StartWith(dur)) /\ HeldSince /\ UNCHANGED config

KeeperBeginTick == BeginTickUpTo(KeeperTicks) /\ HeldSince /\ UNCHANGED config

KeeperFinish == FinishRun /\ HeldSince /\ UNCHANGED config

KeeperStep ==
    /\ pc = "agent"
    /\ LET action == decide_action(update_beliefs(agents, idx), idx, ctx)
       IN  \E d \in DrawsFor(execution_branch(World, idx, action), action) :
              AgentStepWith(action, d)
    /\ HeldSince
    /\ UNCHANGED config

KeeperPhysics == PhysicsStep /\ HeldSince /\ UNCHANGED config

KeeperUpdatePhase == UpdatePhaseStep /\ HeldSince /\ UNCHANGED config

KeeperGoalCheck == GoalCheckStep /\ HeldSince /\ UNCHANGED config

NextKeeper ==
    \/ KeeperStart
    \/ KeeperBeginTick
    \/ KeeperFinish
    \/ KeeperStep
    \/ KeeperPhysics
    \/ KeeperUpdatePhase
    \/ KeeperGoalCheck

SpecKeeper == Init /\ [][NextKeeper]_vars

(***************************************************************************)
(* SpecLog: log_event called with any agent team, activity and result      *)
(***************************************************************************)
LogAgents == {0, TeamSize}
LogActivities == {"pass", "shot", "press"}
LogResults == {"success", "failure"}

InitLog == InitAt("logger") /\ twin = None

LogCall ==
    /\ pc = "logger"
    /\ logger.event_counter < MaxEvents
    /\ \E a \in LogAgents, action_type \in LogActivities, result \in LogResults :
         logger' = log_event(logger, agents, a, action_type, result, ball.position, ctx)
    /\ UNCHANGED <<agents, ball, score, game_phase, match_time, match_duration,
                   ctx, pc, idx, executed, moves, twin, config>>

NextLog == LogCall

SpecLog == InitLog /\ [][NextLog]_vars

(***************************************************************************)
(* SpecEvent: the record a logger writes for one log_event call, for any   *)
(* logged activity, context phase and ball position (the thresholds of the *)
(* zone classifiers and their neighbours included)                         *)
(***************************************************************************)
\* the calls _kickoff makes: the kickoff agent, success, the new ball at the
\* centre, the phase already set to attack
KickoffCalls ==
    {[a |-> KickoffAgent, action_type |-> "kickoff", result |-> "success",
      phase |-> "attack", x |-> 50 * Unit, y |-> 50 * Unit]}

\* ball coordinates, hundredths
Coordinates == {0, 3332, 3333, 3334, 5000, 6666, 6667, 6668, 10000}

\* the calls _execute_action makes
ActionCalls ==
    {[a |-> a, action_type |-> act, result |-> r, phase |-> ph, x |-> x, y |-> y] :
        a \in LogAgents, act \in Vocabulary \cup {"press_defender"},
        r \in LogResults, ph \in {"attack", "defense", "transition"},
        x \in Coordinates, y \in Coordinates}

InitEvent == InitAt("event") /\ twin = None

\* one log_event call on a new logger
EventCall ==
    /\ pc = "event"
    /\ \E c \in KickoffCalls \cup ActionCalls :
         /\ ball' = [ball EXCEPT !.position = Pos(c.x, c.y)]
         /\ ctx' = [ctx EXCEPT !.game_phase = c.phase]
         /\ executed' = [NoExec EXCEPT !.agent = c.a, !.action = c.action_type,
                                       !.result = c.result]
         /\ logger' = log_event(NewLogger, agents, c.a, c.action_type, c.result,
                                Pos(c.x, c.y), ctx')
    /\ pc' = "logged"
    /\ UNCHANGED <<agents, score, game_phase, match_time, match_duration,
                   idx, moves, twin, config>>

NextEvent == EventCall

SpecEvent == InitEvent /\ [][NextEvent]_vars

(***************************************************************************)
(* SpecPhysics: update_ball_physics applied again and again to a ball with *)
(* any position and velocity; twin keeps the ball the updates started from *)
(***************************************************************************)
\* ball coordinates, hundredths
RollFrom == {0, 20, 5000, 9980, 10000}

\* velocity components, hundredths per second
Velocities == {-3000, -200, -10, -9, 0, 9, 10, 200, 3000}

InitPhysics ==
    LET w == NewWorld(90)
    IN  /\ \E x \in RollFrom, y \in RollFrom, vx \in Velocities, vy \in Velocities :
             ball = [NewBall EXCEPT !.position = Pos(x, y), !.velocity = <<vx, vy>>]
        /\ twin = ball
        /\ agents = w.agents
        /\ score = w.score
        /\ game_phase = w.game_phase
        /\ match_time = w.match_time
        /\ match_duration = w.match_duration
        /\ logger = w.logger
        /\ ctx = get_game_context(w)
        /\ pc = "rolling"
        /\ idx = 0
        /\ executed = NoExec
        /\ moves = 0
        /\ config = DefaultConfig

PhysicsCall ==
    /\ pc = "rolling"
    /\ ball' = update_ball_physics(ball, timestep)
    /\ UNCHANGED <<agents, score, game_phase, match_time, match_duration, logger,
                   ctx, pc, idx, executed, moves, twin, config>>

NextPhysics == PhysicsCall

\* the update is applied again and again
SpecPhysics == InitPhysics /\ [][NextPhysics]_vars /\ WF_vars(NextPhysics)

(***************************************************************************)
(* SpecTwin: two runs of one configuration side by side.  Both runs are    *)
(* given the same duration and the same action for every agent; each run   *)
(* takes its own draws from np.random.                                     *)
(***************************************************************************)
(* SpecPlace: one iteration of the agent loop from a position anywhere on  *)
(* the pitch, its edges and corners included, for a ball anywhere, the     *)
(* places a scattered shot or pass leaves it in included; twin keeps the   *)
(* position the agent acted from                                           *)
(***************************************************************************)
\* agent coordinates, hundredths
PlaceAt == {0, 300, 5000, 9700, 10000}

\* ball coordinates, hundredths
BallAt == {-2000, 0, 5000, 10000, 12000}

InitPlace ==
    LET w == NewWorld(90)
    IN  /\ \E a \in ActiveIds, x \in PlaceAt, y \in PlaceAt, held \in BOOLEAN,
              bx \in BallAt, by \in BallAt :
             /\ agents = [w.agents EXCEPT ![a].position = Pos(x, y), ![a].has_ball = held]
             /\ ball = [NewBall EXCEPT !.position = Pos(bx, by),
                                       !.possession = IF held THEN a ELSE NoAgent]
             /\ idx = a
             /\ twin = Pos(x, y)
        /\ score = w.score
        /\ game_phase = w.game_phase
        /\ match_time = w.match_time
        /\ match_duration = w.match_duration
        /\ logger = w.logger
        /\ ctx = get_game_context(w)
        /\ pc = "placed"
        /\ executed = NoExec
        /\ moves = 0
        /\ config = DefaultConfig

\* the iteration of agent idx, for any action of the vocabulary and any draw
PlaceCall ==
    /\ pc = "placed"
    /\ \E action \in Vocabulary :
         \E d \in DrawsFor(execution_branch(World, idx, action), action) :
            LET w0 == [World EXCEPT !.agents = update_beliefs(agents, idx)]
            IN  /\ Becomes(agent_iteration(World, idx, action, ctx, d))
                /\ executed' = [agent |-> idx, action |-> action,
                                result |-> execute_branch(w0, idx, action, d).result,
                                branch |-> execution_branch(w0, idx, action),
                                held |-> agents[idx].has_ball]
    /\ pc' = "stepped"
    /\ UNCHANGED <<ctx, idx, moves, twin, config>>

NextPlace == PlaceCall

SpecPlace == InitPlace /\ [][NextPlace]_vars

(***************************************************************************)
InitTwin ==
    /\ InitAt("new")
    /\ twin = [w |-> NewWorld(90), ctx |-> get_game_context(NewWorld(90))]

TwinStart ==
    \E dur \in Durations :
        /\ StartWith(dur)
        /\ twin' = [twin EXCEPT !.w = Kept(run_start(twin.w, dur))]
        /\ UNCHANGED config

TwinBeginTick ==
    /\ BeginTickUpTo(TwinTicks)
    /\ twin' = [twin EXCEPT !.ctx = get_game_context(twin.w)]
    /\ UNCHANGED config

TwinFinish == FinishRun /\ UNCHANGED <<twin, config>>

TwinAgentStep ==
    /\ pc = "agent"
    /\ \E action \in Choices(idx) :
         /\ \E d \in DrawsFor(execution_branch(World, idx, action), action) :
               AgentStepWith(action, d)
         /\ \E d2 \in DrawsFor(execution_branch(twin.w, idx, action), action) :
               twin' = [twin EXCEPT !.w = Kept(agent_iteration(twin.w, idx, action, twin.ctx, d2))]
    /\ UNCHANGED config

TwinPhysics ==
    /\ PhysicsStep
    /\ twin' = [twin EXCEPT !.w.ball = update_ball_physics(twin.w.ball, timestep)]
    /\ UNCHANGED config

TwinUpdatePhase ==
    /\ UpdatePhaseStep
    /\ twin' = [twin EXCEPT !.w.game_phase = update_game_phase(twin.w)]
    /\ UNCHANGED config

TwinGoalCheck ==
    /\ GoalCheckStep
    /\ twin' = [twin EXCEPT !.w = Kept(advance_and_check(twin.w))]
    /\ UNCHANGED config

NextTwin ==
    \/ TwinStart
    \/ TwinBeginTick
    \/ TwinFinish
    \/ TwinAgentStep
    \/ TwinPhysics
    \/ TwinUpdatePhase
    \/ TwinGoalCheck

SpecTwin == InitTwin /\ [][NextTwin]_vars

(***************************************************************************)
(* SpecRun: run_simulation to its end.  The role policies decide every     *)
(* action, except that the kickoff agent may open the match with a shot;   *)
(* the loop runs until its own test fails.                                 *)
(***************************************************************************)
RunChoices(a) ==
    LET decided == decide_action(update_beliefs(agents, a), a, ctx)
    IN  IF a = KickoffAgent /\ match_time = 0 THEN {decided, "shoot"} ELSE {decided}

RunStep == AgentStepIn(RunChoices(idx)) /\ UNCHANGED <<twin, config>>

RunBeginTick == BeginTickUpTo(match_duration \div timestep) /\ UNCHANGED <<twin, config>>

NextRun ==
    \/ Start
    \/ RunBeginTick
    \/ Finish
    \/ RunStep
    \/ Physics
    \/ UpdatePhase
    \/ GoalCheck

SpecRun == Init /\ [][NextRun]_vars /\ WF_vars(NextRun)

(***************************************************************************)
(* SpecBuild: the constructor called with any pair of formation            *)
(* identifiers, then run_simulation under the role policies when the       *)
(* construction succeeded                                                  *)
(***************************************************************************)
\* formation identifiers the constructor is called with
FormationIds == {"4-4-2", "4-3-3"}

\* __init__ up to the team construction: no agent exists yet
InitBuild ==
    LET w == NewWorld(90)
    IN  /\ config \in [home_formation : FormationIds, away_formation : FormationIds]
        /\ agents = [i \in {} |-> create_team[i]]
        /\ ball = w.ball
        /\ score = w.score
        /\ game_phase = w.game_phase
        /\ match_time = w.match_time
        /\ match_duration = w.match_duration
        /\ logger = w.logger
        /\ ctx = get_game_context(w)
        /\ pc = "create_home"
        /\ idx = 0
        /\ executed = NoExec
        /\ moves = 0
        /\ twin = None

\* __init__, line 31: self.home_team = self._create_team('home', home_formation)
CreateHome ==
    /\ pc = "create_home"
    /\ LET r == create_team_for("home", config.home_formation)
       IN  /\ agents' = r.team
           /\ pc' = IF r.raised THEN "raised" ELSE "create_away"
    /\ UNCHANGED <<ball, score, game_phase, match_time, match_duration, logger,
                   ctx, idx, executed, moves, twin, config>>

\* __init__, lines 32-33: the away team, then all_agents
CreateAway ==
    /\ pc = "create_away"
    /\ LET r == create_team_for("away", config.away_formation)
       IN  /\ agents' = agents @@ r.team
           /\ pc' = IF r.raised THEN "raised" ELSE "new"
    /\ UNCHANGED <<ball, score, game_phase, match_time, match_duration, logger,
                   ctx, idx, executed, moves, twin, config>>

NextBuild ==
    \/ CreateHome
    \/ CreateAway
    \/ Start
    \/ PolicyBeginTick
    \/ Finish
    \/ PolicyStep
    \/ Physics
    \/ UpdatePhase
    \/ GoalCheck

SpecBuild == InitBuild /\ [][NextBuild]_vars

(***************************************************************************)
(* SpecPressure: update_beliefs called for an agent with any visible-agent *)
(* collection, with or without the ball, and an opponent at a chosen       *)
(* offset from it                                                          *)
(***************************************************************************)
\* the agents whose beliefs are updated: home GK and home ST1
BeliefAgents == {0, 9}

\* the opponent that is placed: away ST1
PlacedOpponent == 20

\* offsets of the placed opponent (hundredths): distances 0, 1.99, 2, 4.99,
\* 5 (twice), 5.01, 9.99, 10 (twice), 10.01
Offsets ==
    {<<0, 0>>, <<199, 0>>, <<200, 0>>, <<499, 0>>, <<300, 400>>, <<0, 500>>,
     <<501, 0>>, <<999, 0>>, <<600, 800>>, <<1000, 0>>, <<1001, 0>>}

\* the collections passed as visible_agents: everyone else, teammates only, nobody
Views(a) == {visible_agents(a), teammates_of(a), {}}

InitPressure == InitAt("beliefs") /\ twin = None

BeliefCall ==
    /\ pc = "beliefs"
    /\ \E a \in BeliefAgents, holder \in BOOLEAN, off \in Offsets :
         \E visible \in Views(a) :
            LET p == create_team[a].position
                ag == [create_team EXCEPT
                         ![a].has_ball = holder,
                         ![PlacedOpponent].position = Pos(p.x + off[1], p.y + off[2])]
            IN  /\ agents' = [ag EXCEPT ![a].pressure_level =
                                          calculate_pressure(ag, a, visible)]
                /\ executed' = [agent |-> a, action |-> "update_beliefs",
                                result |-> "success", branch |-> None,
                                held |-> holder, visible |-> visible]
    /\ UNCHANGED <<ball, score, game_phase, match_time, match_duration, logger,
                   ctx, pc, idx, moves, twin, config>>

NextPressure == BeliefCall

SpecPressure == InitPressure /\ [][NextPressure]_vars

(***************************************************************************)
(* Properties                                                              *)
(***************************************************************************)
Holders == {a \in Ids : agents[a].has_ball}

InPitch(p) == 0 <= p.x /\ p.x <= 100 * Unit /\ 0 <= p.y /\ p.y <= 100 * Unit

Centre == Pos(50 * Unit, 50 * Unit)

LastEvent(lg) == lg.events[Len(lg.events)]

\* the step is one iteration of the agent loop
IsAgentStep == pc = "agent" /\ idx' = idx + 1

\* C1: at most one agent has has_ball = true in every reachable state
\* (after the kickoff, after every executed action, after the goal check and
\* the kickoff reset it triggers).
AtMostOneHolder == Cardinality(Holders) <= 1

\* C2: the ball position is inside [0,100]x[0,100] in every reachable state.
BallInPitch == InPitch(ball.position)

\* C3: across the log the case id never decreases, and every log_event call
\* raises it by exactly 1 if and only if a possession-change condition holds
\* at the call (no possession team yet, or the acting team differs from the
\* possession team, or a failed pass, dribble or shot); otherwise the case
\* id is unchanged.  The logged event carries the resulting case id.
CaseIdFollowsPossessionChange ==
    /\ [](\A i \in 1..(Len(logger.events) - 1) :
            logger.events[i].case_id <= logger.events[i + 1].case_id)
    /\ [][logger'.event_counter = logger.event_counter + 1 =>
            LET e == LastEvent(logger')
                change == \/ logger.current_possession_team = None
                          \/ e.team # logger.current_possession_team
                          \/ (e.activity \in {"pass", "dribble", "shot"}
                              /\ e.activity_result = "failure")
            IN  /\ e.case_id = logger'.current_possession_id
                /\ logger'.current_possession_id =
                     IF change THEN logger.current_possession_id + 1
                     ELSE logger.current_possession_id]_vars

\* C3 witness: the possession team's failed shot has opened a new case, and
\* the event before it had stayed in its case
FailedShotOpenedCase ==
    LET ev == logger.events
        n == Len(ev)
    IN  /\ pc = "logger"
        /\ n >= 3
        /\ ev[n].team = ev[n - 1].team
        /\ ev[n].activity = "shot"
        /\ ev[n].activity_result = "failure"
        /\ ev[n].case_id = ev[n - 1].case_id + 1
        /\ ev[n - 1].case_id = ev[n - 2].case_id

GoalCountedOnce ==
    /\ [](pc = "loop" => is_goal_scored(ball.position) = None)
    /\ [][pc = "goalcheck" =>
            LET t == is_goal_scored(ball.position)
            IN  IF t # None
                THEN /\ score'[t] = score[t] + 1
                     /\ score'[Other(t)] = score[Other(t)]
                     /\ ball'.position = Centre
                ELSE score' = score]_vars

\* C5 witness: a goal check has counted a crossing and the loop goes on
GoalCounted ==
    /\ pc = "loop"
    /\ match_time > 0
    /\ Len(logger.events) > 0
    /\ LastEvent(logger).activity = "kickoff"
    /\ score.home + score.away > 0

\* C6: pass, shoot or dribble executed for an agent that does not hold the
\* ball logs exactly one event, with result failure, changes no agent's
\* position or has_ball flag, nor the ball, nor the score, and the loop goes
\* on to the next agent.
NonHolderActionFails ==
    [][(IsAgentStep /\ executed'.action \in {"pass", "shoot", "dribble"}
          /\ ~agents[idx].has_ball) =>
        /\ \A a \in Ids : /\ agents'[a].position = agents[a].position
                          /\ agents'[a].has_ball = agents[a].has_ball
        /\ ball' = ball
        /\ score' = score
        /\ logger'.event_counter = logger.event_counter + 1
        /\ LastEvent(logger').event_id = logger.event_counter
        /\ LastEvent(logger').activity = executed'.action
        /\ LastEvent(logger').activity_result = "failure"
        /\ pc' \in {"agent", "physics"}]_vars

\* C6 witness: a non-holder's dribble has been executed and logged as a failure
NonHolderDribbled ==
    /\ executed.action = "dribble"
    /\ ~executed.held
    /\ executed.result = "failure"
    /\ Len(logger.events) > 0
    /\ LastEvent(logger).activity = "dribble"
    /\ LastEvent(logger).activity_result = "failure"

\* C7: every action a role policy decides is executed: it runs one of the
\* execution branches of _execute_action or it is maintain_position.
DecidedActionIsExecuted ==
    executed.agent # NoAgent =>
        (executed.branch # "none" \/ executed.action = "maintain_position")

\* the xG of a shot as the claim states it (hundredths)
ShotXg(result, p) ==
    IF result = "goal" THEN 100
    ELSE IF Nearer(p, Pos(0, 50 * Unit), 10) \/ Nearer(p, Pos(100 * Unit, 50 * Unit), 10) THEN 40
    ELSE IF Nearer(p, Pos(0, 50 * Unit), 20) \/ Nearer(p, Pos(100 * Unit, 50 * Unit), 20) THEN 20
    ELSE 5

\* C8: the event logged for an executed shot carries the shot xG: 1.0 for a
\* goal, else 0.4 / 0.2 / 0.05 by the distance of the ball's post-action
\* position to the nearer goal-mouth centre.
ShotEventCarriesXg ==
    [][(IsAgentStep /\ executed'.branch = "shot") =>
        LastEvent(logger').xg_added = ShotXg(executed'.result, ball'.position)]_vars

\* C9: the event logged for a shot that does not score starts a new case:
\* the case id is incremented and the sequence number is 1.
FailedShotStartsCase ==
    [][(IsAgentStep /\ executed'.branch = "shot" /\ executed'.result = "saved") =>
        /\ logger'.current_possession_id = logger.current_possession_id + 1
        /\ LastEvent(logger').case_id = logger.current_possession_id + 1
        /\ LastEvent(logger').sequence_number = 1]_vars

\* C10: the events that share a case id are contiguous in the log and have
\* one team, and the logger's current possession team is the team of the
\* first event of the current case.
CaseIsOneTeamRun ==
    LET ev == logger.events
        n == Len(ev)
        current == {i \in 1..n : ev[i].case_id = logger.current_possession_id}
    IN  /\ \A i, j \in 1..n :
              (i < j /\ ev[i].case_id = ev[j].case_id) =>
                  /\ ev[i].team = ev[j].team
                  /\ \A k \in i..j : ev[k].case_id = ev[i].case_id
        /\ n > 0 =>
              /\ current # {}
              /\ \A i \in current :
                    (\A k \in current : i <= k) =>
                        ev[i].team = logger.current_possession_team

\* C10 witness: the log holds a closed case of one team and a current case of
\* two events of the other team
TwoCasesLogged ==
    LET ev == logger.events
        n == Len(ev)
    IN  /\ pc = "logger"
        /\ n >= 3
        /\ ev[n].case_id = ev[n - 1].case_id
        /\ ev[n - 2].case_id # ev[n].case_id
        /\ ev[n - 2].team # ev[n].team
        /\ logger.current_possession_team = ev[n].team

\* the step appends one event to the log
EventAppended == logger'.event_counter = logger.event_counter + 1

\* C11: within a case the timestamps are non-decreasing in log order over a
\* run, the kickoff event logged after a goal and the events of the tick
\* that follows it included.
TimestampsOrderedInCase ==
    [][(EventAppended /\ Len(logger.events) > 0
          /\ LastEvent(logger').case_id = LastEvent(logger).case_id) =>
        LastEvent(logger').timestamp >= LastEvent(logger).timestamp]_vars

\* C11 witness: the kickoff after a goal has been logged into the case of the
\* events before it, stamped with the advanced match time
KickoffStampedInCase ==
    /\ pc = "loop"
    /\ Len(logger.events) > 0
    /\ LastEvent(logger).activity = "kickoff"
    /\ LastEvent(logger).sequence_number >= 2
    /\ LastEvent(logger).timestamp = match_time
    /\ match_time > 0

\* C12: within a case the sequence numbers are 1, 2, ..., n in log order: the
\* event that starts a case has sequence_number 1 and the logger records its
\* team as possession team and its match time as possession start; every
\* other event has the previous event's sequence_number plus 1.
SequenceNumbersCount ==
    [][EventAppended =>
        LET e == LastEvent(logger')
        IN  /\ e.sequence_number = logger'.current_possession_sequence
            /\ IF logger'.current_possession_id # logger.current_possession_id
               THEN /\ e.sequence_number = 1
                    /\ logger'.current_possession_team = e.team
                    /\ logger'.possession_start_time = e.timestamp
               ELSE /\ Len(logger.events) > 0
                    /\ e.case_id = LastEvent(logger).case_id
                    /\ e.sequence_number = LastEvent(logger).sequence_number + 1
                    /\ logger'.current_possession_team = logger.current_possession_team
                    /\ logger'.possession_start_time = logger.possession_start_time]_vars

\* C12 witness: a case started in the second tick is recorded with its start time
CaseStartedLater ==
    /\ Len(logger.events) > 0
    /\ LastEvent(logger).sequence_number = 1
    /\ LastEvent(logger).timestamp > 0
    /\ logger.possession_start_time = LastEvent(logger).timestamp
    /\ logger.current_possession_team = "away"

\* C13: in a tick the agents are processed in the order home slots then away
\* slots; each agent's belief update precedes the execution and logging of
\* its action and is complete before the next agent's turn, which sees the
\* has_ball flags left by the earlier agents; the ball physics, the phase
\* recompute and the goal check follow the last agent once each, in that
\* order.
TickSequence ==
    [][/\ pc = "loop" => \/ pc' = "agent" /\ idx' = 0
                         \/ pc' = "done"
       /\ pc = "agent" =>
            LET p == calculate_pressure(agents, idx, visible_agents(idx))
            IN  /\ executed'.agent = idx
                /\ idx' = idx + 1
                /\ pc' = IF idx = 2 * TeamSize - 1 THEN "physics" ELSE "agent"
                /\ executed'.held = agents[idx].has_ball
                /\ executed'.branch = execution_branch(World, idx, executed'.action)
                /\ agents'[idx].pressure_level = p
                /\ \A a \in Ids \ {idx} : agents'[a].pressure_level = agents[a].pressure_level
                /\ EventAppended =>
                      /\ LastEvent(logger').player_id = idx
                      /\ LastEvent(logger').team = (IF idx < TeamSize THEN "home" ELSE "away")
                      /\ LastEvent(logger').player_role = Slots[(idx % TeamSize) + 1]
                      /\ LastEvent(logger').pressure_level = p
       /\ pc = "physics" => /\ pc' = "phase"
                            /\ ball' = update_ball_physics(ball, timestep)
                            /\ UNCHANGED <<agents, score, game_phase, match_time, logger>>
       /\ pc = "phase" => /\ pc' = "goalcheck"
                          /\ game_phase' = update_game_phase(World)
                          /\ UNCHANGED <<agents, ball, score, match_time, logger>>
       /\ pc = "goalcheck" => /\ pc' = "loop"
                              /\ match_time' = match_time + timestep]_vars

\* C13 witness: in the first tick the away ST1, processed after the home GK,
\* has taken the ball the home GK lost earlier in the same tick
LaterAgentSawLooseBall ==
    /\ match_time = 0
    /\ pc = "physics"
    /\ agents[2 * TeamSize - 2].has_ball
    /\ ~agents[KickoffAgent].has_ball
    /\ ball.possession = 2 * TeamSize - 2

\* C14: every executed action other than maintain_position appends exactly
\* one event, whatever its result and also when the engine does not
\* recognise it; maintain_position appends none; the goal check appends one
\* kickoff event exactly when it detects a goal; nothing else in a tick logs.
OneEventPerAction ==
    [][/\ pc = "agent" =>
            IF executed'.action = "maintain_position"
            THEN logger' = logger
            ELSE /\ EventAppended
                 /\ LastEvent(logger').activity = executed'.action
                 /\ LastEvent(logger').activity_result = executed'.result
       /\ pc = "goalcheck" =>
            IF is_goal_scored(ball.position) # None
            THEN EventAppended /\ LastEvent(logger').activity = "kickoff"
            ELSE logger' = logger
       /\ pc \in {"loop", "physics", "phase"} => logger' = logger]_vars

\* C14 witness: an action the engine does not recognise has been logged
UnrecognisedActionLogged ==
    /\ executed.action = "find_space"
    /\ executed.branch = "none"
    /\ Len(logger.events) > 0
    /\ LastEvent(logger).activity = "find_space"
    /\ LastEvent(logger).activity_result = "failure"
    /\ LastEvent(logger).player_id = executed.agent

\* C17: when a score has been incremented during a tick (by a shot whose
\* result is goal or by the goal check), the kickoff reset has happened by
\* the time the next tick begins: ball at the centre, possession with the
\* kickoff agent, phase attack, and the kickoff event logged.
ScoreChangeResets ==
    (pc = "loop" /\ match_time > 0 /\ score # ctx.score) =>
        /\ ball.position = Centre
        /\ ball.possession = KickoffAgent
        /\ agents[KickoffAgent].has_ball
        /\ game_phase = "attack"
        /\ Len(logger.events) > 0
        /\ LastEvent(logger).activity = "kickoff"

\* update_beliefs has been called for executed.agent
BeliefsUpdated == pc = "beliefs" /\ executed.agent # NoAgent

\* the opponents in the collection the call was given
SeenOpponents == {o \in executed.visible : Team(o) # Team(executed.agent)}

\* C15: for a ball holder that sees its opponents, with d the distance to the
\* nearest opponent: d < 2 gives extreme, 2 <= d < 5 high, 5 <= d < 10
\* medium and d >= 10 low; an agent without the ball gets none.
PressureBuckets ==
    (BeliefsUpdated /\ SeenOpponents # {}) =>
        LET a == executed.agent
            o == CHOOSE o \in SeenOpponents :
                    \A q \in SeenOpponents :
                        DistSq(agents[a].position, agents[o].position)
                          <= DistSq(agents[a].position, agents[q].position)
            dsq == DistSq(agents[a].position, agents[o].position)
        IN  agents[a].pressure_level =
              IF ~agents[a].has_ball THEN "none"
              ELSE IF dsq < (2 * Unit) * (2 * Unit) THEN "extreme"
              ELSE IF dsq < (5 * Unit) * (5 * Unit) THEN "high"
              ELSE IF dsq < (10 * Unit) * (10 * Unit) THEN "medium"
              ELSE "low"

\* C15 witness: a holder whose nearest opponent is exactly 5.0 away is under
\* medium pressure
HolderAtFiveIsMedium ==
    /\ BeliefsUpdated
    /\ agents[executed.agent].has_ball
    /\ PlacedOpponent \in executed.visible
    /\ DistSq(agents[executed.agent].position, agents[PlacedOpponent].position)
         = (5 * Unit) * (5 * Unit)
    /\ agents[executed.agent].pressure_level = "medium"

\* C16: an agent whose visible-agent collection holds no opponent gets
\* pressure_level "none", whether or not it holds the ball.
NoOpponentGivesNone ==
    (BeliefsUpdated /\ SeenOpponents = {}) =>
        agents[executed.agent].pressure_level = "none"

\* the steps run_simulation still has to take: the ticks left times the steps
\* of a tick, plus the steps left in the current tick
StepsLeft ==
    IF pc = "done" THEN 0
    ELSE ((match_duration - match_time) \div timestep) * (2 * TeamSize + 5)
         + (IF pc = "loop" THEN 2 * TeamSize + 4
            ELSE IF pc = "agent" THEN 2 * TeamSize + 3 - idx
            ELSE IF pc = "physics" THEN 3
            ELSE IF pc = "phase" THEN 2
            ELSE 1)

\* C18: run_simulation terminates for every duration: the loop test always
\* either starts a tick or returns, every step after the start lowers the
\* non-negative count of steps left, match_time advances by exactly one
\* timestep per tick (at the goal check) and by nothing else, and the run
\* ends with match_time equal to match_duration, whatever goals, kickoff
\* resets and action outcomes occurred.
RunTerminates ==
    /\ [](pc = "loop" => ENABLED (RunBeginTick \/ Finish))
    /\ [](pc = "done" => match_time = match_duration)
    /\ [][/\ match_time' = (IF pc = "goalcheck" THEN match_time + timestep
                            ELSE match_time)
          /\ pc # "new" => /\ match_duration' = match_duration
                           /\ StepsLeft' < StepsLeft
                           /\ StepsLeft' >= 0]_vars

\* C18 witness: a one-minute run with a goal and its kickoff reset has ended
\* after 600 ticks
RunEndedAfterGoal ==
    /\ pc = "done"
    /\ match_duration = 60 * 1000
    /\ match_time = 600 * timestep
    /\ score.home > 0
    /\ agents[KickoffAgent].has_ball

\* C19: an unknown formation identifier aborts the construction: the
\* _create_team call that raises has created no agent (the agents built are
\* none, or the whole home team when the away formation is the unknown one),
\* and every simulation that exists after the constructor has both teams
\* complete, built from known formations.
TeamsBuiltWhole ==
    /\ pc = "create_home" => DOMAIN agents = {}
    /\ pc = "create_away" => DOMAIN agents = HomeIds
    /\ pc = "raised" =>
          /\ DOMAIN agents = (IF config.home_formation \in ImplementedFormations
                              THEN HomeIds ELSE {})
          /\ \/ config.home_formation \notin ImplementedFormations
             \/ config.away_formation \notin ImplementedFormations
    /\ pc \notin {"create_home", "create_away", "raised"} =>
          /\ DOMAIN agents = Ids
          /\ pc = "new" => agents = create_team
          /\ config.home_formation \in ImplementedFormations
          /\ config.away_formation \in ImplementedFormations

\* C19 witness: the away formation was unknown; the constructor raised with
\* the home team built and no away agent
AwayFormationRejected ==
    /\ pc = "raised"
    /\ config.home_formation = "4-4-2"
    /\ config.away_formation = "4-3-3"
    /\ DOMAIN agents = HomeIds

\* C20: the log is append-only: every log_event call appends exactly one
\* record and leaves the earlier records as they were, and the k-th record
\* carries event id k-1, so the ids are unique and strictly increasing.
LogAppendOnly ==
    /\ [](/\ Len(logger.events) = logger.event_counter
          /\ \A k \in 1..Len(logger.events) : logger.events[k].event_id = k - 1)
    /\ [][logger' # logger =>
            /\ Len(logger'.events) = Len(logger.events) + 1
            /\ SubSeq(logger'.events, 1, Len(logger.events)) = logger.events]_vars

\* C20 witness: three records logged, the third with event id 2
ThreeEventsLogged ==
    /\ pc = "logger"
    /\ Len(logger.events) = 3
    /\ logger.events[3].event_id = 2
    /\ logger.events[1].event_id = 0

\* the teammates of a
Teammates(a) == {t \in Ids : t # a /\ Team(t) = Team(a)}

\* no agent has has_ball after the step
NobodyHolds == \A o \in Ids : ~agents'[o].has_ball

\* no agent's position changes in the step
PositionsKept == \A o \in Ids : agents'[o].position = agents[o].position

\* C21: a pass by the ball holder (who has a teammate): on success the target
\* is a teammate nearest to the passer, the passer's has_ball becomes false,
\* the target's true, ball.possession is the target and the ball is at the
\* target's position; on failure no agent holds the ball, ball.possession is
\* None and the ball is inside [0,100]x[0,100]; in both outcomes the passer
\* no longer holds the ball and no agent position changes.
PassTransfersOrLoses ==
    [][(IsAgentStep /\ executed'.branch = "pass") =>
        /\ ~agents'[idx].has_ball
        /\ PositionsKept
        /\ executed'.result \in {"success", "failure"}
        /\ executed'.result = "success" =>
             LET target == ball'.possession
             IN  /\ target \in Teammates(idx)
                 /\ \A o \in Teammates(idx) :
                      DistSq(agents[idx].position, agents[target].position)
                        <= DistSq(agents[idx].position, agents[o].position)
                 /\ agents'[target].has_ball
                 /\ ball'.position = agents[target].position
        /\ executed'.result = "failure" =>
             /\ NobodyHolds
             /\ ball'.possession = NoAgent
             /\ InPitch(ball'.position)]_vars

\* C22: a shot by the ball holder: on success the shooter's team score grows
\* by exactly 1, the other team's score is unchanged, possession is cleared
\* (no agent holds the ball, ball.possession None) and the result is 'goal';
\* on failure possession is cleared, the result is 'saved' and neither score
\* changes.
ShotScoresOrClears ==
    [][(IsAgentStep /\ executed'.branch = "shot") =>
        /\ executed'.result \in {"goal", "saved"}
        /\ NobodyHolds
        /\ ball'.possession = NoAgent
        /\ executed'.result = "goal" =>
             /\ score'[Team(idx)] = score[Team(idx)] + 1
             /\ score'[Other(Team(idx))] = score[Other(Team(idx))]
        /\ executed'.result = "saved" => score' = score]_vars

\* no has_ball flag changes in the step
FlagsKept == \A o \in Ids : agents'[o].has_ball = agents[o].has_ball

\* no agent but a changes position in the step
OthersStay(a) == \A o \in Ids \ {a} : agents'[o].position = agents[o].position

\* C23: a dribble by the ball holder returns success, keeps possession with
\* the dribbler (has_ball stays true, no flag and no ball.possession changes),
\* leaves the agent and the ball at the same position inside [0,100]x[0,100];
\* a home agent's x does not decrease and an away agent's x does not increase
\* (a step of 2 to 5 in the attacking direction, clamped) and y changes by at
\* most 2.
DribbleCarriesBall ==
    [][(IsAgentStep /\ executed'.branch = "dribble") =>
        LET p == agents[idx].position
            q == agents'[idx].position
        IN  /\ executed'.result = "success"
            /\ agents'[idx].has_ball
            /\ FlagsKept
            /\ ball'.possession = ball.possession
            /\ ball'.position = q
            /\ InPitch(q)
            /\ OthersStay(idx)
            /\ Team(idx) = "home" =>
                 /\ p.x <= q.x /\ q.x <= p.x + 5 * Unit
                 /\ q.x >= p.x + 2 * Unit \/ q.x = 100 * Unit
            /\ Team(idx) = "away" =>
                 /\ q.x <= p.x /\ q.x >= p.x - 5 * Unit
                 /\ q.x <= p.x - 2 * Unit \/ q.x = 0
            /\ Abs(q.y - p.y) <= 2 * Unit]_vars

\* C23 witness: the away striker dribbled the ball onto the goal line, where
\* the step was clamped at x = 0
AwayDribbleClamped ==
    /\ executed.branch = "dribble"
    /\ executed.agent = 20
    /\ pc = "agent" /\ idx = 21
    /\ agents[20].position.x = 0
    /\ agents[20].has_ball
    /\ ball.position = agents[20].position

\* C24: an intercept steals possession only when the intercepting agent is
\* within 3 units of the ball as the agents before it in the tick left it; on
\* a steal the previous holder's has_ball is cleared, the interceptor's is
\* set, ball.possession is the interceptor, the ball is at the interceptor's
\* position and the interceptor does not move.
InterceptSteals ==
    [][(IsAgentStep /\ executed'.action = "intercept"
          /\ (ball' # ball \/ ~FlagsKept)) =>
        /\ Nearer(agents[idx].position, ball.position, 3)
        /\ (ball.possession \in Ids \ {idx}) => ~agents'[ball.possession].has_ball
        /\ agents'[idx].has_ball
        /\ ball'.possession = idx
        /\ ball'.position = agents[idx].position
        /\ agents'[idx].position = agents[idx].position
        /\ executed'.result = "success"]_vars

\* C24 witness: the away striker stole the ball from the home goalkeeper, who
\* had dribbled it into range earlier in the same tick (at the start of the
\* tick the ball was out of the striker's range)
StolenWithinTick ==
    /\ executed.action = "intercept"
    /\ executed.agent = 20
    /\ pc = "agent" /\ idx = 21
    /\ agents[20].has_ball
    /\ ball.possession = 20
    /\ ~agents[0].has_ball
    /\ Nearer(agents[0].position, agents[20].position, 3)
    /\ Farther(agents[20].position, ctx.ball_position, 3)

\* the step changes nothing but the position (and the beliefs) of agent a
OnlyMoves(a) ==
    /\ FlagsKept
    /\ ball' = ball
    /\ score' = score
    /\ \A o \in Ids \ {a} : agents'[o] = agents[o]

\* C25: movement actions (move_to_position, support_run, track_back) and
\* defensive actions without a steal (close_down, press, an intercept out of
\* range or whose steal fails) change only the acting agent's position: every
\* has_ball flag, ball.possession, the ball position, the score and every
\* other agent are unchanged, and the result is 'success'. An intercept in
\* range either steals (the interceptor becomes the holder) or is such a
\* step.
MovementOnlyMoves ==
    [][(IsAgentStep /\ executed'.branch \in {"movement", "defensive"}) =>
        /\ executed'.result = "success"
        /\ \/ OnlyMoves(idx)
           \/ /\ executed'.action = "intercept"
              /\ Nearer(agents[idx].position, ball.position, 3)
              /\ agents'[idx].has_ball
              /\ ball'.possession = idx]_vars

\* C25 witness: the away striker's intercept of a loose ball in range failed:
\* the striker moved towards the ball and the ball stayed loose
FailedStealMoved ==
    /\ executed.action = "intercept"
    /\ executed.agent = 20
    /\ executed.result = "success"
    /\ pc = "agent" /\ idx = 21
    /\ Nearer(agents[20].position, ball.position, 3)
    /\ agents[20].position # home_position(20)
    /\ ball.possession = NoAgent
    /\ Holders = {}

\* the step logs a kickoff event
KickoffLogged == EventAppended /\ LastEvent(logger').activity = "kickoff"

\* C26: a kickoff reset, the initial one or one after a goal by either team,
\* replaces the ball by a new ball at (50,50) with zero velocity, gives
\* ball.possession and has_ball to the home team's first agent, sets the
\* phase to attack, leaves the score (beyond the goal just counted) and all
\* agent positions unchanged, and logs exactly one 'kickoff' event with
\* result success and process_type possession attributed to that agent; the
\* start of a run and every goal found by the goal check are such resets.
KickoffResets ==
    /\ [][KickoffLogged =>
            /\ ball'.position = Pos(50 * Unit, 50 * Unit)
            /\ ball'.velocity = <<0, 0>>
            /\ ball'.possession = 0
            /\ agents'[0].has_ball
            /\ game_phase' = "attack"
            /\ PositionsKept
            /\ pc = "new" => score' = score
            /\ pc = "goalcheck" =>
                 score' = [score EXCEPT ![is_goal_scored(ball.position)] = @ + 1]
            /\ LastEvent(logger').activity_result = "success"
            /\ LastEvent(logger').process_type = "possession"
            /\ LastEvent(logger').player_id = 0
            /\ LastEvent(logger').team = "home"]_vars
    /\ [][(pc = "new" \/ (pc = "goalcheck" /\ is_goal_scored(ball.position) # None))
            <=> KickoffLogged]_vars

\* C26 witness: the kickoff reset after an away goal: the ball is back at
\* the centre with the home goalkeeper and the phase is attack
ResetAfterAwayGoal ==
    /\ pc = "loop"
    /\ match_time > 0
    /\ score.away = 1
    /\ score.home = 0
    /\ LastEvent(logger).activity = "kickoff"
    /\ ball = [NewBall EXCEPT !.possession = 0]
    /\ agents[0].has_ball
    /\ game_phase = "attack"

\* the phase stated for a ball at x, held by a home agent or not
PhaseOf(x, home_holds) ==
    IF 33 * Unit <= x /\ x <= 67 * Unit THEN "transition"
    ELSE IF x < 33 * Unit THEN (IF home_holds THEN "defense" ELSE "attack")
    ELSE (IF home_holds THEN "attack" ELSE "defense")

StateUnder(s, t) ==
    IF s[t] > s[Other(t)] THEN "winning"
    ELSE IF s[t] < s[Other(t)] THEN "losing"
    ELSE "drawing"

\* C28: the context is one snapshot per tick: it is built at the start of
\* the tick from the match_time, remaining time, score, ball position and
\* phase of that moment, no step of the tick changes it, and every event of
\* the tick carries its match_time and time_remaining and a game_state
\* computed from its score, even after an earlier agent of the tick moved the
\* ball or changed the score; the next tick builds a new one.
ContextIsTickSnapshot ==
    /\ [][pc = "loop" /\ pc' = "agent" =>
            /\ ctx'.match_time = match_time
            /\ ctx'.time_remaining = (match_duration - match_time) \div 1000
            /\ ctx'.score = score
            /\ ctx'.ball_position = ball.position
            /\ ctx'.game_phase = game_phase]_vars
    /\ [][pc # "loop" => ctx' = ctx]_vars
    /\ [][(IsAgentStep /\ EventAppended) =>
            /\ LastEvent(logger').timestamp = ctx.match_time
            /\ LastEvent(logger').time_remaining = ctx.time_remaining
            /\ LastEvent(logger').game_state = StateUnder(ctx.score, Team(idx))]_vars

\* C28 witness: the home goalkeeper scored with a shot earlier in the tick,
\* and the away striker's event of the same tick still reads 'drawing'
EventUnderTickStartScore ==
    /\ pc = "agent" /\ idx = 21
    /\ executed.agent = 20
    /\ executed.action = "intercept"
    /\ score.home = 1 /\ score.away = 0
    /\ ctx.score.home = 0
    /\ LastEvent(logger).player_id = 20
    /\ LastEvent(logger).game_state = "drawing"

\* C29: an event's process_type is 'pressing' exactly when its activity is
\* one of press, close_down, intercept and the context phase is not attack;
\* it is 'possession' for every other event, every kickoff event and every
\* press, close_down or intercept logged while the phase is attack included.
ProcessTypeRule ==
    (pc = "logged" /\ Len(logger.events) > 0) =>
        LET e == LastEvent(logger)
            pressing == /\ e.activity \in {"press", "close_down", "intercept"}
                        /\ ctx.game_phase # "attack"
        IN  e.process_type = (IF pressing THEN "pressing" ELSE "possession")

\* C29 witness: a press logged while the phase is attack is a possession
\* event
PressInAttackIsPossession ==
    /\ pc = "logged"
    /\ Len(logger.events) > 0
    /\ LastEvent(logger).activity = "press"
    /\ ctx.game_phase = "attack"
    /\ LastEvent(logger).process_type = "possession"

\* C30: the pitch_zone and sub_zone written in an event equal the pitch's
\* own classification (get_zone, get_sub_zone) of the ball's post-action
\* position for every coordinate, the thresholds 33.33 and 66.67 included.
EventZonesAgreeWithPitch ==
    (pc = "logged" /\ Len(logger.events) > 0) =>
        LET e == LastEvent(logger)
        IN  /\ e.end = ball.position
            /\ e.pitch_zone = get_zone(e.end)
            /\ e.sub_zone = get_sub_zone(e.end)

\* C31: ball physics from any velocity: an update with nonzero velocity moves
\* the ball by velocity*dt clamped to [0,100]x[0,100] and multiplies the
\* velocity by 0.95, setting it to exactly zero once both components are
\* below 0.1 in absolute value; with zero velocity the update changes
\* nothing; under repeated updates the ball eventually comes to rest and its
\* position stays in bounds throughout.
BallComesToRest ==
    /\ [](InPitch(ball.position))
    /\ [][pc = "rolling" =>
            IF ball.velocity = <<0, 0>> THEN ball' = ball
            ELSE LET vx == Scale(ball.velocity[1], 95, 100)
                     vy == Scale(ball.velocity[2], 95, 100)
                 IN  /\ ball'.position.x =
                          Clamp(ball.position.x + Scale(ball.velocity[1], timestep, 1000))
                     /\ ball'.position.y =
                          Clamp(ball.position.y + Scale(ball.velocity[2], timestep, 1000))
                     /\ ball'.velocity = (IF Abs(vx) < 10 /\ Abs(vy) < 10
                                          THEN <<0, 0>> ELSE <<vx, vy>>)
                     /\ ball'.possession = ball.possession]_vars
    /\ <>[](ball.velocity = <<0, 0>>)

\* C31 witness: a ball kicked from the centre at 30 units a second along x
\* has come to rest, stopped by the clamp on the goal line
BallRestsOnLine ==
    /\ pc = "rolling"
    /\ twin.position = Centre
    /\ twin.velocity = <<3000, 0>>
    /\ ball.velocity = <<0, 0>>
    /\ ball.position.x = 100 * Unit

\* 6 seconds in ms: the time the goalkeeper declares for its distribution
DistributionTime == 6000

\* C32: in a run under the role policies a goalkeeper that holds the ball
\* distributes it within 6 seconds (60 ticks) of gaining it: the home
\* goalkeeper never has has_ball = true more than 6 seconds after the
\* match_time at which it gained the ball.
KeeperDistributes ==
    agents[KickoffAgent].has_ball => match_time - twin <= DistributionTime

\* the goalkeepers: the first agent of each team
Goalkeepers == {0, TeamSize}

\* C33: in every state of a run under the role policies each goalkeeper's
\* position lies inside its own team's penalty area (home x in [0,16], away
\* x in [84,100], y in [37,63]).
KeepersStayInArea ==
    \A g \in Goalkeepers :
        LET p == agents[g].position
        IN  /\ 37 * Unit <= p.y /\ p.y <= 63 * Unit
            /\ Team(g) = "home" => (0 <= p.x /\ p.x <= 16 * Unit)
            /\ Team(g) = "away" => (84 * Unit <= p.x /\ p.x <= 100 * Unit)

\* C33 witness: the away goalkeeper has executed move_to_position, after the
\* home goalkeeper gave the ball away with a shot, and both are in their
\* areas
KeeperMovedInArea ==
    /\ pc = "agent"
    /\ executed.agent = TeamSize
    /\ executed.action = "move_to_position"
    /\ executed.result = "success"
    /\ match_time > 0
    /\ ~agents[0].has_ball
    /\ is_in_penalty_area(agents[TeamSize].position, "away")
    /\ is_in_penalty_area(agents[0].position, "home")

\* C34: the two possession records agree in every state reachable through
\* the engine: ball.possession is the id of an agent if and only if that
\* agent has has_ball = true, and ball.possession is None if and only if no
\* agent has has_ball = true.
PossessionRecordsAgree ==
    /\ \A a \in Ids : (ball.possession = a) <=> agents[a].has_ball
    /\ (ball.possession = NoAgent) <=> (Holders = {})

\* C35: the ball tracks its holder: in every state reachable through the
\* engine in which some agent has has_ball = true, the ball position equals
\* that agent's position.
BallTracksHolder ==
    \A a \in Ids : agents[a].has_ball => ball.position = agents[a].position

\* C36: the score change caused by a shot agrees with its logged result over
\* the whole tick: when the goal check that ends a tick runs and the last
\* event of the tick is a shot logged 'saved', the score after the check is
\* the score of the tick's start; when it is a shot logged 'goal', the
\* shooter's team has exactly 1 more than at the tick's start and the other
\* team as many.
ShotResultMatchesScore ==
    [][(/\ pc = "goalcheck"
        /\ Len(logger.events) > 0
        /\ LastEvent(logger).activity = "shoot"
        /\ LastEvent(logger).timestamp = ctx.match_time
        /\ LastEvent(logger).activity_result \in {"saved", "goal"}) =>
        LET e == LastEvent(logger)
        IN  IF e.activity_result = "saved" THEN score' = ctx.score
            ELSE /\ score'[e.team] = ctx.score[e.team] + 1
                 /\ score'[Other(e.team)] = ctx.score[Other(e.team)]]_vars

\* C37: every agent's position is inside [0,100]x[0,100]: as the teams are
\* constructed, and after an iteration of the agent loop for any action, from any
\* position on the pitch and for any ball position, one outside the pitch included
AgentsInPitch == \A a \in Ids : InPitch(agents[a].position)

\* an agent 3 units from the far goal line pressed a ball 20 units behind that line
\* and stands on the line
PressedToTheLine ==
    /\ pc = "stepped"
    /\ executed.action = "press"
    /\ twin.x = 9700
    /\ ball.position.x = 12000
    /\ agents[executed.agent].position.x = 100 * Unit

\* C38: the ball's velocity is (0, 0) in every state of a run, and the physics
\* update of a tick leaves the ball as it was
BallNeverRolls ==
    /\ [](ball.velocity = <<0, 0>>)
    /\ [][pc = "physics" => ball' = ball]_vars

\* the physics update ran on a loose ball that a missed shot left outside the pitch,
\* and the ball is still there
LooseBallLeftOutside ==
    /\ pc = "phase"
    /\ ball.possession = NoAgent
    /\ ~InPitch(ball.position)
    /\ ball.velocity = <<0, 0>>

====
